---- MODULE Spec2Model ----
(***************************************************************************)
(* Model of the lookahead tokenizer of src/src/lib.rs: a two-slot buffer   *)
(* (current, next) over a logos Lexer, with class-based filtering of       *)
(* ignorable tokens, expectation operations and positioned errors.         *)
(*                                                                         *)
(* The token type is the one of src/tests/aaa.rs: A(String), Space,        *)
(* Unknown.  A token value is a record [cls, val]; val stands for the      *)
(* payload (for A the matched slice, represented by its byte length).      *)
(* Option values are sequences: None is <<>> and Some(v) is <<v>>.         *)
(***************************************************************************)
EXTENDS Integers, Sequences, FiniteSets, TLC

\* ------------------------------------------------------------------ bounds

\* longest source, in raw tokens
MaxLen == 3

\* longest A token, in bytes
MaxTokLen == 2

\* ------------------------------------------------------------------ Option / Result

None == <<>>

Some(v) == <<v>>

IsSome(o) == o # <<>>

Ok(v) == [tag |-> "Ok", val |-> v]

Err(e) == [tag |-> "Err", val |-> e]

\* ------------------------------------------------------------------ tokens

A(n) == [cls |-> "A", val |-> n]

Space == [cls |-> "Space", val |-> 0]

Unknown == [cls |-> "Unknown", val |-> 0]

\* TypeEq::type_eq of the test token type: same variant, payload ignored
type_eq(a, b) ==
    \/ a.cls = "A" /\ b.cls = "A"
    \/ a.cls = "Space" /\ b.cls = "Space"

\* ------------------------------------------------------------------ lexer

\* What the lexer produces for one raw token of the source: the token value
\* and its byte length.  A(n) matches n bytes, Space and Unknown one byte.
RawTokens ==
    {[tok |-> A(n), len |-> n] : n \in 1..MaxTokLen}
        \cup {[tok |-> Space, len |-> 1], [tok |-> Unknown, len |-> 1]}

\* logos::Lexer, as the tokenizer uses it: the raw tokens of the source, how
\* many were produced, and the span token_start..token_end of the last one.
Token_lexer(source) ==
    [source |-> source, pos |-> 0, token_start |-> 0, token_end |-> 0]

\* Lexer::next: the next raw token, its span following the previous one; at
\* the end of the input None, with the empty span at the end of the input,
\* again and again.
lexer_next(lexer) ==
    IF lexer.pos < Len(lexer.source)
    THEN LET raw == lexer.source[lexer.pos + 1]
         IN  [lexer |-> [lexer EXCEPT !.pos = lexer.pos + 1,
                                      !.token_start = lexer.token_end,
                                      !.token_end = lexer.token_end + raw.len],
              token |-> Some(raw.tok)]
    ELSE [lexer |-> [lexer EXCEPT !.token_start = lexer.token_end],
          token |-> None]

\* Lexer::span().start
span_start(lexer) == lexer.token_start

\* Lexer::span().len()
span_len(lexer) == lexer.token_end - lexer.token_start

\* ------------------------------------------------------------------ Error

\* Error::new
Error_new(index, len, msg) == [index |-> index, len |-> len, msg |-> msg]

\* The text of a message: the format string's prefix, the wanted token(s) in
\* Debug form, and what was got: a token in Debug form or "end of file".
Msg(prefix, wanted, got) == [prefix |-> prefix, wanted |-> wanted, got |-> got]

GotToken(t) == [eof |-> FALSE, tok |-> <<t>>]

GotEndOfFile == [eof |-> TRUE, tok |-> <<>>]

\* ------------------------------------------------------------------ Tokenizer

\* new_loop without the skipping: the lazy construction, which leaves the
\* first raw token in next
new_loop_lazy(st, ignore) == st

\* the construction loop: while next is a token that is type_eq to an entry
\* of ignore, pull the next one
RECURSIVE new_loop(_, _)
new_loop(st, ignore) ==
    IF IsSome(st.next)
    THEN LET token == st.next[1]
             found == \E k \in 1..Len(ignore) : type_eq(token, ignore[k])
         IN  IF found
             THEN LET r == lexer_next(st.lexer)
                  IN  new_loop([lexer |-> r.lexer,
                                next |-> r.token,
                                next_index |-> span_start(r.lexer),
                                next_len |-> span_len(r.lexer)], ignore)
             ELSE st
    ELSE st

\* Tokenizer::new
Tokenizer_new(lexer, ignore) ==
    LET r == lexer_next(lexer)
        st == new_loop([lexer |-> r.lexer,
                        next |-> r.token,
                        next_index |-> span_start(r.lexer),
                        next_len |-> span_len(r.lexer)], ignore)
    IN  [lexer |-> st.lexer,
         current |-> None,
         next |-> st.next,
         index |-> 0,
         len |-> 0,
         next_index |-> st.next_index,
         next_len |-> st.next_len,
         ignore |-> ignore]

\* Tokenizer::peek
peek(self) == self.next

\* Tokenizer::current
current(self) == self.current

\* Tokenizer::error
error(self, msg) == Error_new(Some(self.index), Some(self.len), msg)

\* can_ignore that finds nothing ignorable
can_ignore_never(self, token) == FALSE

\* Tokenizer::can_ignore
can_ignore(self, token) ==
    \E k \in 1..Len(self.ignore) : type_eq(self.ignore[k], token)

\* drain that leaves next as pulled
drain_off(self) == self

\* the inner loop of Iterator::next: while next is an ignorable token, pull
\* the next one
RECURSIVE drain(_)
drain(self) ==
    IF IsSome(self.next) /\ can_ignore(self, self.next[1])
    THEN LET r == lexer_next(self.lexer)
         IN  drain([self EXCEPT !.lexer = r.lexer,
                                !.next = r.token,
                                !.next_index = span_start(r.lexer),
                                !.next_len = span_len(r.lexer)])
    ELSE self

\* shift with a filtered position: index advanced by the length of the token
\* that was current, instead of taking the span of the token moved in
shift_filtered_pos(self) ==
    LET r == lexer_next(self.lexer)
    IN  [self EXCEPT !.current = self.next,
                     !.index = self.index + self.len,
                     !.len = self.next_len,
                     !.lexer = r.lexer,
                     !.next = r.token,
                     !.next_index = span_start(r.lexer),
                     !.next_len = span_len(r.lexer)]

\* shift that keeps current when next is absent: at the end of the stream the
\* last token stays current
shift_keep(self) ==
    LET r == lexer_next(self.lexer)
    IN  IF IsSome(self.next)
        THEN [self EXCEPT !.current = self.next,
                          !.index = self.next_index,
                          !.len = self.next_len,
                          !.lexer = r.lexer,
                          !.next = r.token,
                          !.next_index = span_start(r.lexer),
                          !.next_len = span_len(r.lexer)]
        ELSE [self EXCEPT !.lexer = r.lexer]

\* one round of Iterator::next up to its test of current: next moves into
\* current with its position, and one raw token is pulled into next
shift(self) ==
    LET r == lexer_next(self.lexer)
    IN  [self EXCEPT !.current = self.next,
                     !.index = self.next_index,
                     !.len = self.next_len,
                     !.lexer = r.lexer,
                     !.next = r.token,
                     !.next_index = span_start(r.lexer),
                     !.next_len = span_len(r.lexer)]

\* Iterator::next that filters instead of looping: an ignorable current ends
\* the call with absent, and next is left as pulled
Iterator_next_stop(self) ==
    LET s == shift(self)
    IN  IF IsSome(s.current) /\ can_ignore(s, s.current[1])
        THEN [self |-> s, ret |-> None]
        ELSE [self |-> s, ret |-> s.current]

\* Iterator::next: the tokenizer afterwards and the value returned
RECURSIVE Iterator_next(_)
Iterator_next(self) ==
    LET s == shift(self)
    IN  IF IsSome(s.current)
        THEN IF ~can_ignore(s, s.current[1])
             THEN [self |-> drain(s), ret |-> s.current]
             ELSE Iterator_next(s)
        ELSE [self |-> s, ret |-> s.current]

\* expect that only inspects: a match returns current and leaves the stream
\* where it is
expect_inspect(self, token) ==
    IF IsSome(current(self))
    THEN LET got == current(self)[1]
         IN  IF type_eq(token, got)
             THEN [self |-> self, ret |-> Ok(got)]
             ELSE [self |-> self,
                   ret |-> Err(error(self,
                                     Msg("expect token", <<token>>, GotToken(got))))]
    ELSE [self |-> self,
          ret |-> Err(error(self, Msg("expect token", <<token>>, GotEndOfFile)))]

\* expect that advances whether or not there is a current token
expect_pull_at_eof(self, token) ==
    LET r == Iterator_next(self)
    IN  IF IsSome(current(self))
        THEN LET got == current(self)[1]
             IN  IF type_eq(token, got)
                 THEN [self |-> r.self, ret |-> Ok(got)]
                 ELSE [self |-> r.self,
                       ret |-> Err(error(r.self,
                                         Msg("expect token", <<token>>, GotToken(got))))]
        ELSE [self |-> r.self,
              ret |-> Err(error(r.self, Msg("expect token", <<token>>, GotEndOfFile)))]

\* expect that reads the token for its message after advancing
expect_msg_late(self, token) ==
    IF IsSome(current(self))
    THEN LET got == current(self)[1]
             r == Iterator_next(self)
             late == IF IsSome(r.self.current)
                     THEN GotToken(r.self.current[1])
                     ELSE GotEndOfFile
         IN  IF type_eq(token, got)
             THEN [self |-> r.self, ret |-> Ok(got)]
             ELSE [self |-> r.self,
                   ret |-> Err(error(r.self, Msg("expect token", <<token>>, late)))]
    ELSE [self |-> self,
          ret |-> Err(error(self, Msg("expect token", <<token>>, GotEndOfFile)))]

\* expect that takes current out of its slot on a match (Option::take) and
\* does not advance
expect_take(self, token) ==
    IF IsSome(current(self))
    THEN LET got == current(self)[1]
             r == Iterator_next(self)
         IN  IF type_eq(token, got)
             THEN [self |-> [self EXCEPT !.current = None], ret |-> Ok(got)]
             ELSE [self |-> r.self,
                   ret |-> Err(error(r.self,
                                     Msg("expect token", <<token>>, GotToken(got))))]
    ELSE [self |-> self,
          ret |-> Err(error(self, Msg("expect token", <<token>>, GotEndOfFile)))]

\* Tokenizer::expect
expect(self, token) ==
    IF IsSome(current(self))
    THEN LET got == current(self)[1]
             r == Iterator_next(self)
         IN  IF type_eq(token, got)
             THEN [self |-> r.self, ret |-> Ok(got)]
             ELSE [self |-> r.self,
                   ret |-> Err(error(r.self,
                                     Msg("expect token", <<token>>, GotToken(got))))]
    ELSE [self |-> self,
          ret |-> Err(error(self, Msg("expect token", <<token>>, GotEndOfFile)))]

\* expect_multi that tests the first wanted token only
expect_multi_first(self, tokens) ==
    IF IsSome(current(self))
    THEN LET token == current(self)[1]
             r == Iterator_next(self)
         IN  IF Len(tokens) >= 1 /\ type_eq(token, tokens[1])
             THEN [self |-> r.self, ret |-> Ok(token)]
             ELSE [self |-> r.self,
                   ret |-> Err(error(r.self,
                                     Msg("expect tokens", tokens, GotToken(token))))]
    ELSE [self |-> self,
          ret |-> Err(error(self, Msg("expect tokens", tokens, GotEndOfFile)))]

\* Tokenizer::expect_multi
expect_multi(self, tokens) ==
    IF IsSome(current(self))
    THEN LET token == current(self)[1]
             r == Iterator_next(self)
         IN  IF \E k \in 1..Len(tokens) : type_eq(token, tokens[k])
             THEN [self |-> r.self, ret |-> Ok(token)]
             ELSE [self |-> r.self,
                   ret |-> Err(error(r.self,
                                     Msg("expect tokens", tokens, GotToken(token))))]
    ELSE [self |-> self,
          ret |-> Err(error(self, Msg("expect tokens", tokens, GotEndOfFile)))]

\* is that compares whole tokens, payload included
is_structural(self, token) ==
    IF IsSome(self.current) THEN self.current[1] = token ELSE FALSE

\* Tokenizer::is
is(self, token) ==
    IF IsSome(self.current) THEN type_eq(self.current[1], token) ELSE FALSE

\* Tokenizer::is_multi
is_multi(self, tokens) ==
    IF IsSome(self.current)
    THEN \E k \in 1..Len(tokens) : type_eq(self.current[1], tokens[k])
    ELSE FALSE

\* next_is that inspects current instead of next
next_is_current(self, token) ==
    IF IsSome(self.current) THEN type_eq(self.current[1], token) ELSE FALSE

\* Tokenizer::next_is
next_is(self, token) ==
    IF IsSome(self.next) THEN type_eq(self.next[1], token) ELSE FALSE

\* Tokenizer::next_is_multi
next_is_multi(self, tokens) ==
    IF IsSome(self.next)
    THEN \E k \in 1..Len(tokens) : type_eq(self.next[1], tokens[k])
    ELSE FALSE

\* ------------------------------------------------------------------ inputs

\* The sources the lexer of the test token type can produce: the regex [a]+
\* is greedy, so no two A tokens are adjacent.
Sources ==
    {s \in UNION {[1..n -> RawTokens] : n \in 0..MaxLen} :
        \A i \in 1..(Len(s) - 1) : ~(s[i].tok.cls = "A" /\ s[i + 1].tok.cls = "A")}

\* the ignore sets tried: sequences of exemplars
IgnoreSets ==
    {<<>>, <<Space>>, <<A(1)>>, <<Space, A(1)>>, <<Unknown, Space>>}

\* the wanted tokens tried with expect
WantedTokens == {A(1), Space, Unknown}

\* the wanted sequences tried with expect_multi
WantedSeqs == {<<>>, <<Space>>, <<Unknown, A(1)>>, <<Space, A(1)>>}

\* the message tried with error
CustomMsg == Msg("unexpected", <<>>, GotEndOfFile)

\* ------------------------------------------------------------------ state

\* self: the Tokenizer.  The others record the last call for the properties:
\* op its name, arg its argument, ret its result, pre the tokenizer before
\* it; out is the sequence of tokens the stream has surfaced so far (returned
\* by advance, or made current by the advance inside an expectation), up to
\* the first absent result of an advance; done says an advance has returned
\* absent; calls counts the runs of Iterator::next (an advance, or the one
\* inside an expectation) made before an advance has returned absent, that
\* advance included.
VARIABLES self, op, arg, ret, pre, out, done, calls

vars == <<self, op, arg, ret, pre, out, done, calls>>

Init ==
    \E source \in Sources, ignore \in IgnoreSets :
        /\ self = Tokenizer_new(Token_lexer(source), ignore)
        /\ op = "new"
        /\ arg = <<>>
        /\ ret = <<>>
        /\ pre = Tokenizer_new(Token_lexer(source), ignore)
        /\ out = <<>>
        /\ done = FALSE
        /\ calls = 0

\* out after a call that ran Iterator::next and left the tokenizer as s
Surfaced(s) == IF IsSome(s.current) /\ ~done THEN Append(out, s.current[1]) ELSE out

\* advance(): Iterator::next
Advance ==
    LET r == Iterator_next(self)
    IN  /\ self' = r.self
        /\ op' = "next"
        /\ arg' = <<>>
        /\ ret' = r.ret
        /\ pre' = self
        /\ out' = IF IsSome(r.ret) /\ ~done THEN Append(out, r.ret[1]) ELSE out
        /\ done' = (done \/ r.ret = None)
        /\ calls' = IF done THEN calls ELSE calls + 1

Expect ==
    \E token \in WantedTokens :
        LET r == expect(self, token)
        IN  /\ self' = r.self
            /\ op' = "expect"
            /\ arg' = <<token>>
            /\ ret' = r.ret
            /\ pre' = self
            /\ out' = IF IsSome(self.current) THEN Surfaced(r.self) ELSE out
            /\ done' = done
            /\ calls' = IF IsSome(self.current) /\ ~done THEN calls + 1 ELSE calls

ExpectMulti ==
    \E tokens \in WantedSeqs :
        LET r == expect_multi(self, tokens)
        IN  /\ self' = r.self
            /\ op' = "expect_multi"
            /\ arg' = tokens
            /\ ret' = r.ret
            /\ pre' = self
            /\ out' = IF IsSome(self.current) THEN Surfaced(r.self) ELSE out
            /\ done' = done
            /\ calls' = IF IsSome(self.current) /\ ~done THEN calls + 1 ELSE calls

ErrorCall ==
    /\ op' = "error"
    /\ arg' = <<>>
    /\ ret' = error(self, CustomMsg)
    /\ pre' = self
    /\ UNCHANGED <<self, out, done, calls>>

\* a call of a method that takes &self: it returns result and cannot write
\* the tokenizer
ReadOnlyCall(name, argument, result) ==
    /\ op' = name
    /\ arg' = argument
    /\ ret' = result
    /\ pre' = self
    /\ UNCHANGED <<self, out, done, calls>>

Peek == ReadOnlyCall("peek", <<>>, peek(self))

Current == ReadOnlyCall("current", <<>>, current(self))

Is == \E token \in WantedTokens : ReadOnlyCall("is", <<token>>, is(self, token))

IsMulti ==
    \E tokens \in WantedSeqs : ReadOnlyCall("is_multi", tokens, is_multi(self, tokens))

NextIs ==
    \E token \in WantedTokens : ReadOnlyCall("next_is", <<token>>, next_is(self, token))

NextIsMulti ==
    \E tokens \in WantedSeqs :
        ReadOnlyCall("next_is_multi", tokens, next_is_multi(self, tokens))

Next ==
    \/ Advance
    \/ Expect
    \/ ExpectMulti
    \/ ErrorCall
    \/ Peek
    \/ Current
    \/ Is
    \/ IsMulti
    \/ NextIs
    \/ NextIsMulti

Spec == Init /\ [][Next]_vars

\* the traversal by advance() alone
NextAdvance == Advance

SpecAdvance == Init /\ [][NextAdvance]_vars

\* ------------------------------------------------------------------ reference notions

\* the raw tokens of the source the tokenizer was built on
Src == self.lexer.source

\* the token's class is in the ignore set
InIgnoreSet(t) == \E k \in 1..Len(self.ignore) : type_eq(t, self.ignore[k])

\* the source positions of the tokens that are not ignorable
Kept == {i \in 1..Len(Src) : ~InIgnoreSet(Src[i].tok)}

\* the first kept position after position i, or 0 when there is none
FirstKeptAfter(i) ==
    IF \E j \in Kept : j > i
    THEN CHOOSE j \in Kept : j > i /\ \A m \in Kept : m > i => j <= m
    ELSE 0

\* the token at a position as an Option, None for position 0
TokenAt(i) == IF i = 0 THEN None ELSE Some(Src[i].tok)

\* the k-th kept position, for k in 1..Cardinality(Kept)
KthKept(k) == CHOOSE i \in Kept : Cardinality({j \in Kept : j <= i}) = k

\* the source without its ignorable tokens, in order
KeptTokens == [k \in 1..Cardinality(Kept) |-> Src[KthKept(k)].tok]

\* the byte offset of position i: the bytes of every raw token before it
RECURSIVE Offset(_)
Offset(i) == IF i <= 1 THEN 0 ELSE Offset(i - 1) + Src[i - 1].len

\* the length of the source in bytes
SrcBytes == Offset(Len(Src) + 1)

\* the source position of the current token: it is the last one surfaced
CurrentPos == KthKept(Len(out))

\* ------------------------------------------------------------------ claims

\* C1 Ignore-transparency: in every state, from construction on, neither
\* current() nor peek() is a token whose class is in the ignore set.
C1_IgnoreTransparency ==
    /\ IsSome(current(self)) => ~InIgnoreSet(current(self)[1])
    /\ IsSome(peek(self)) => ~InIgnoreSet(peek(self)[1])

\* C1 witness: an advance skipped an ignorable token of the source on its
\* way to a lookahead token.
C1_Witness ==
    /\ op = "next"
    /\ IsSome(current(self))
    /\ IsSome(peek(self))
    /\ \E i \in 1..Len(Src) :
          /\ InIgnoreSet(Src[i].tok)
          /\ CurrentPos < i
          /\ i < self.lexer.pos

\* C2 Order preservation: the tokens advance() returns, from construction to
\* its first absent result, are the source without its ignorable tokens, in
\* order; before that result they are a prefix of it.
C2_OrderPreservation ==
    /\ Len(out) <= Len(KeptTokens)
    /\ out = SubSeq(KeptTokens, 1, Len(out))
    /\ done => out = KeptTokens

\* C2 witness: a traversal ended after returning two tokens of a source that
\* holds ignorable tokens too.
C2_Witness ==
    /\ done
    /\ Len(out) >= 2
    /\ Len(out) < Len(Src)

\* C3 Lookahead correctness: right after an advance() that returned the token
\* at source position i, peek() is the first kept token after i (absent when
\* there is none), with its own span, and the lexer has pulled exactly up to
\* it (to the end of the source when there is none).
C3_LookaheadCorrectness ==
    (op = "next" /\ IsSome(ret)) =>
        LET i == CurrentPos
            j == FirstKeptAfter(i)
        IN  /\ ret = Some(Src[i].tok)
            /\ peek(self) = TokenAt(j)
            /\ j # 0 => /\ self.lexer.pos = j
                        /\ self.next_index = Offset(j)
                        /\ self.next_len = Src[j].len
            /\ j = 0 => self.lexer.pos = Len(Src)

\* C3 witness: an advance returned a token that an ignorable token separates
\* from the lookahead token.
C3_Witness ==
    /\ op = "next"
    /\ IsSome(ret)
    /\ IsSome(peek(self))
    /\ FirstKeptAfter(CurrentPos) > CurrentPos + 1

\* C4 Idempotent termination: once an advance() has returned absent, every
\* later advance() returns absent and current() and peek() stay absent.
C4_IdempotentTermination ==
    done =>
        /\ current(self) = None
        /\ peek(self) = None
        /\ op = "next" => ret = None

\* C4 witness: an advance on an exhausted tokenizer, at least the second one
\* to return absent, after the stream had surfaced tokens.
C4_Witness ==
    /\ done
    /\ op = "next"
    /\ pre.current = None
    /\ pre.lexer.pos = Len(Src)
    /\ Len(out) >= 1

\* C5 Eager-skip construction: right after new, current() is absent and
\* peek() is the first token of the source that is not ignorable, absent when
\* there is none.
C5_EagerSkipConstruction ==
    op = "new" =>
        /\ current(self) = None
        /\ peek(self) = TokenAt(FirstKeptAfter(0))

\* C5 witness: construction skipped a leading ignorable token and stopped at
\* a token.
C5_Witness ==
    /\ op = "new"
    /\ Len(Src) >= 2
    /\ InIgnoreSet(Src[1].tok)
    /\ IsSome(peek(self))

\* the last call was an expectation made with a current token that matches
\* none of the wanted tokens (arg holds them: one for expect)
Mismatch ==
    /\ op \in {"expect", "expect_multi"}
    /\ IsSome(pre.current)
    /\ ~\E k \in 1..Len(arg) : type_eq(pre.current[1], arg[k])

\* the Error of the last call, when it made one
LastError == IF op = "error" THEN ret ELSE ret.val

\* C6 expect consume-on-success: expect(W) returns Ok exactly when current()
\* is present and class-equal to W; it then carries the token that was
\* current and leaves the tokenizer as one advance() from the state before
\* the call leaves it.
C6_ExpectConsumeOnSuccess ==
    op = "expect" =>
        /\ ret.tag = "Ok" <=>
              (IsSome(pre.current) /\ type_eq(pre.current[1], arg[1]))
        /\ ret.tag = "Ok" =>
              /\ ret.val = pre.current[1]
              /\ self = Iterator_next(pre).self

\* C6 witness: a successful expect that made the lookahead token current and
\* discarded an ignorable token while refilling the lookahead.
C6_Witness ==
    /\ op = "expect"
    /\ ret.tag = "Ok"
    /\ IsSome(current(self))
    /\ self.lexer.pos > pre.lexer.pos
    /\ InIgnoreSet(Src[self.lexer.pos].tok)

\* C7 A failed match does not advance: an expectation made with a current
\* token that does not match returns Err and leaves the tokenizer (current,
\* next, the tokens pulled) as it was.
C7_FailedMatchDoesNotAdvance ==
    Mismatch =>
        /\ ret.tag = "Err"
        /\ self = pre

\* C8 Mismatch error position: the Error of a failed match carries the byte
\* offset and length of the token that was current when the call was made.
C8_MismatchErrorPosition ==
    Mismatch =>
        /\ ret.tag = "Err"
        /\ ret.val.index = Some(pre.index)
        /\ ret.val.len = Some(pre.len)

\* C9 No position without a current token: when current() is absent, the
\* Error built by error, expect or expect_multi has index and len absent.
C9_NoPositionWithoutCurrent ==
    (op \in {"error", "expect", "expect_multi"} /\ pre.current = None) =>
        /\ LastError.index = None
        /\ LastError.len = None

\* C10 Position tracking: whenever current() is a token, it is the token of
\* the source at the position surfaced last, and error(message) carries that
\* position's byte offset, which counts every raw token before it, and its
\* byte length.
C10_PositionTracking ==
    IsSome(current(self)) =>
        LET i == CurrentPos
            e == error(self, CustomMsg)
        IN  /\ current(self) = Some(Src[i].tok)
            /\ e.index = Some(Offset(i))
            /\ e.len = Some(Src[i].len)

\* C10 witness: an advance made current a token that follows a skipped
\* ignorable token and an earlier surfaced token.
C10_Witness ==
    /\ op = "next"
    /\ IsSome(current(self))
    /\ Len(out) >= 2
    /\ \E i \in 1..(CurrentPos - 1) : InIgnoreSet(Src[i].tok)

\* t is class-equal to one of the tokens of the sequence ts
ClassEqAny(t, ts) == \E k \in 1..Len(ts) : type_eq(t, ts[k])

\* C11 expect_multi consume-on-success: expect_multi(wanted) returns Ok exactly
\* when current() is present and class-equal to an element of wanted (never
\* for an empty wanted); it then carries the token that was current and
\* leaves the tokenizer as one advance() from the state before the call.
C11_ExpectMultiConsumeOnSuccess ==
    op = "expect_multi" =>
        /\ ret.tag = "Ok" <=> (IsSome(pre.current) /\ ClassEqAny(pre.current[1], arg))
        /\ arg = <<>> => ret.tag = "Err"
        /\ ret.tag = "Ok" =>
              /\ ret.val = pre.current[1]
              /\ self = Iterator_next(pre).self

\* C11 witness: an expect_multi that succeeded on its second wanted token and
\* advanced to a further token.
C11_Witness ==
    /\ op = "expect_multi"
    /\ ret.tag = "Ok"
    /\ Len(arg) = 2
    /\ ~type_eq(pre.current[1], arg[1])
    /\ IsSome(current(self))

\* the calls that take &self
ReadOnlyOps ==
    {"peek", "current", "is", "is_multi", "next_is", "next_is_multi", "error"}

\* C12 Read-only operations are pure: peek, current, is, is_multi, next_is,
\* next_is_multi and error leave the tokenizer (current, next, positions,
\* ignore set, lexer) unchanged; peek and current return the slots, is and
\* is_multi say whether current() is present and class-equal to (one of) the
\* argument(s), next_is and next_is_multi the same of peek().
C12_ReadOnlyOperations ==
    op \in ReadOnlyOps =>
        /\ self = pre
        /\ op = "peek" => ret = pre.next
        /\ op = "current" => ret = pre.current
        /\ op = "is" => ret = (IsSome(pre.current) /\ type_eq(pre.current[1], arg[1]))
        /\ op = "is_multi" => ret = (IsSome(pre.current) /\ ClassEqAny(pre.current[1], arg))
        /\ op = "next_is" => ret = (IsSome(pre.next) /\ type_eq(pre.next[1], arg[1]))
        /\ op = "next_is_multi" => ret = (IsSome(pre.next) /\ ClassEqAny(pre.next[1], arg))

\* C12 witness: next_is answered true of a lookahead token of another class
\* than the current token.
C12_Witness ==
    /\ op = "next_is"
    /\ ret = TRUE
    /\ IsSome(current(self))
    /\ ~type_eq(current(self)[1], arg[1])

\* C13 Expectation without a current token: expect and expect_multi return an
\* Err whose message is "expect token(s) <wanted> but got end of file" and
\* leave the tokenizer unchanged, also right after construction, when peek()
\* is present.
C13_ExpectAtEndOfFile ==
    (op \in {"expect", "expect_multi"} /\ pre.current = None) =>
        /\ ret.tag = "Err"
        /\ ret.val.msg =
              Msg(IF op = "expect" THEN "expect token" ELSE "expect tokens",
                  arg, GotEndOfFile)
        /\ self = pre

\* C13 witness: an expect right after construction, with a lookahead token
\* and no current token.
C13_Witness ==
    /\ op = "expect"
    /\ pre.current = None
    /\ IsSome(pre.next)

\* C14 Mismatch message shape: the Err of an expect(W) that found another
\* token T current names W and T, the token that was current when the call
\* was made.
C14_MismatchMessage ==
    (op = "expect" /\ Mismatch) =>
        /\ ret.tag = "Err"
        /\ ret.val.msg = Msg("expect token", arg, GotToken(pre.current[1]))

\* C14 witness: a failed expect after which another token is current than
\* the one the message names.
C14_Witness ==
    /\ op = "expect"
    /\ Mismatch
    /\ IsSome(current(self))
    /\ current(self) # pre.current

\* C15 advance() terminates: in a traversal by advance() alone, an advance has returned
\* absent by the time |S| + 1 runs of Iterator::next were made, and never
\* more runs than that come before it; the lexer never yields more than the
\* |S| raw tokens of the source.
C15_AdvanceTerminates ==
    /\ calls <= Len(Src) + 1
    /\ calls = Len(Src) + 1 => done
    /\ self.lexer.pos <= Len(Src)

\* C15 witness: a traversal of a source of three tokens with an ignorable one
\* among them has ended.
C15_Witness ==
    /\ done
    /\ Len(Src) = 3
    /\ calls >= 2
    /\ calls < Len(Src) + 1

\* C16 Current absent implies lookahead absent: once Iterator::next has run,
\* current() absent implies peek() absent; a state with current() absent and
\* peek() present is the state right after construction.
C16_AbsentCurrentAbsentPeek ==
    /\ (calls >= 1 /\ current(self) = None) => peek(self) = None
    /\ (current(self) = None /\ IsSome(peek(self))) =>
          /\ self = Tokenizer_new(Token_lexer(Src), self.ignore)
          /\ calls = 0

\* C16 witness: an expectation consumed the last token of the stream, which
\* left both slots absent.
C16_Witness ==
    /\ op \in {"expect", "expect_multi"}
    /\ IsSome(pre.current)
    /\ current(self) = None
    /\ ~done

\* C17 expect(W) and expect_multi([W]): from the same state they return the
\* same outcome, Ok with the same token or Err with the same position, and
\* leave the same tokenizer.
C17_ExpectEqualsExpectMultiOfOne ==
    op = "expect" =>
        LET m == expect_multi(pre, arg)
        IN  /\ self = m.self
            /\ ret.tag = m.ret.tag
            /\ ret.tag = "Ok" => ret.val = m.ret.val
            /\ ret.tag = "Err" =>
                  /\ ret.val.index = m.ret.val.index
                  /\ ret.val.len = m.ret.val.len

\* C17 witness: a successful expect of a token whose payload differs from the
\* wanted exemplar's.
C17_Witness ==
    /\ op = "expect"
    /\ ret.tag = "Ok"
    /\ ret.val # arg[1]

\* C18 Test and expectation agree: in every state is(t) is true exactly when
\* expect(t) would return Ok, and is_multi(ts) exactly when expect_multi(ts)
\* would; after a successful expect, current() is the token peek() showed
\* before the call and is answers of it.
C18_IsAgreesWithExpect ==
    /\ \A t \in WantedTokens : is(self, t) = (expect(self, t).ret.tag = "Ok")
    /\ \A ts \in WantedSeqs : is_multi(self, ts) = (expect_multi(self, ts).ret.tag = "Ok")
    /\ (op = "expect" /\ ret.tag = "Ok") =>
          /\ current(self) = peek(pre)
          /\ \A t \in WantedTokens :
                is(self, t) = (IsSome(peek(pre)) /\ type_eq(peek(pre)[1], t))

\* C18 witness: after a successful expect the token that was the lookahead is
\* current, and is answers true of an exemplar with another payload.
C18_Witness ==
    /\ op = "expect"
    /\ ret.tag = "Ok"
    /\ IsSome(current(self))
    /\ \E t \in WantedTokens : is(self, t) /\ current(self)[1] # t

====
